---- MODULE Spec2Model ----
(***************************************************************************)
(* Model of the viert/properties library (src/properties.go): the dotted   *)
(* key tree (put / findNode), the line parser (parse / Load) and the       *)
(* typed accessors.                                                        *)
(*                                                                         *)
(* Go strings are modelled as sequences of one-character strings, so that  *)
(* prefix tests, splitting and the regular expressions are computed and    *)
(* not assumed.  A pointer to a node is its index in `nodes`; 0 is nil.    *)
(***************************************************************************)
EXTENDS Integers, Sequences, FiniteSets, TLC

VARIABLES
    nodes,          \* the heap of propertiesNode values, nodes[1] is p.root
    pc,             \* "parse" | "put" | "loaded" | "failed" | "crashed"
    currentSection, \* parse's local currentSection
    text,           \* parse's local text (raw line) while it is live
    cur,            \* receiver n of the put call in progress (0: none)
    pkey,           \* argument key of the put call in progress
    pvalue,         \* argument value of the put call in progress
    depth,          \* number of put frames on the stack
    ret,            \* what Load returned: [props, err]
    resp,           \* the call made on the loaded Properties and its result
    nread,          \* lines the scanner has delivered
    overwritten,    \* keys whose value a later put has changed
    nbad,           \* delivered lines that match no grammar of the format
    header,         \* raw text of the last section header delivered
    assigned,       \* fully-qualified key -> value of the last put issued
    before,         \* the heap as the last put call found it (<<>>: none)
    scanErr,        \* the error the scanner stopped with, scanner.Err()
    skipped         \* assignment lines of the input that parse never saw

vars == <<nodes, pc, currentSection, text, cur, pkey, pvalue, depth, ret,
          resp, nread, overwritten, nbad, header, assigned, before, scanErr,
          skipped>>

(***************************************************************************)
(* Bounds of the model.                                                    *)
(***************************************************************************)
\* lines of one input file
MaxLines == 3
\* put frames the goroutine stack holds before the runtime aborts
MaxStack == 8

(***************************************************************************)
(* Characters.                                                             *)
(***************************************************************************)
LowerChars == <<"a", "b", "c", "e", "f", "l", "n", "o", "r", "s", "t", "u", "x", "y">>
UpperChars == <<"A", "B", "C", "E", "F", "L", "N", "O", "R", "S", "T", "U", "X", "Y">>
DigitChars == <<"0", "1", "2", "3", "4", "5", "6", "7", "8", "9">>

Range(s) == {s[i] : i \in 1..Len(s)}

IsDigit(c) == c \in Range(DigitChars)

\* \w of the regular expressions: [0-9A-Za-z_]
IsWord(c) == c \in Range(LowerChars) \cup Range(UpperChars) \cup Range(DigitChars) \cup {"_"}

\* [\w\.] : the identifier class of sectionExpr and assignmentExpr
IsIdent(c) == IsWord(c) \/ c = "."

\* \s of the regular expressions: [\t\n\f\r ]
IsSpace(c) == c \in {" ", "\t", "\n", "\f", "\r"}

\* the cutset " \t\n" of strings.Trim in parse
IsTrimmed(c) == c \in {" ", "\t", "\n"}

Dot == <<".">>

(***************************************************************************)
(* package strings                                                         *)
(***************************************************************************)
HasPrefix(s, p) == Len(p) <= Len(s) /\ SubSeq(s, 1, Len(p)) = p

\* strings.Index: first position of substr in s, 0 when absent
Index(s, substr) ==
    LET hits == {i \in 1..(Len(s) - Len(substr) + 1) :
                    SubSeq(s, i, i + Len(substr) - 1) = substr}
    IN  IF hits = {} THEN 0 ELSE CHOOSE i \in hits : \A j \in hits : i <= j

\* strings.Replace(s, old, "", 1) for a non-empty old
ReplaceFirst(s, old) ==
    LET i == Index(s, old)
    IN  IF i = 0 THEN s
        ELSE SubSeq(s, 1, i - 1) \o SubSeq(s, i + Len(old), Len(s))

\* strings.Split(s, ".")
RECURSIVE Split(_)
Split(s) ==
    LET i == Index(s, Dot)
    IN  IF i = 0 THEN <<s>>
        ELSE <<SubSeq(s, 1, i - 1)>> \o Split(SubSeq(s, i + 1, Len(s)))

\* strings.Trim(s, " \t\n")
RECURSIVE Trim(_)
Trim(s) ==
    IF s = <<>> THEN s
    ELSE IF IsTrimmed(s[1]) THEN Trim(Tail(s))
    ELSE IF IsTrimmed(s[Len(s)]) THEN Trim(SubSeq(s, 1, Len(s) - 1))
    ELSE s

ToLowerChar(c) ==
    IF \E i \in 1..Len(UpperChars) : UpperChars[i] = c
    THEN LowerChars[CHOOSE i \in 1..Len(UpperChars) : UpperChars[i] = c]
    ELSE c

\* strings.ToLower
ToLower(s) == [i \in 1..Len(s) |-> ToLowerChar(s[i])]

(***************************************************************************)
(* Errors.  An error value is a pointer: two errors are the same error     *)
(* when type and address agree.  nodeNotFound is allocated once, at        *)
(* package initialisation.                                                 *)
(***************************************************************************)
Nil == [type |-> "nil"]

nodeNotFound == [type |-> "NodeNotFoundError", addr |-> "nodeNotFound"]

NoValueError(key) == [type |-> "NoValueError", key |-> key]

ParseError(msg) == [type |-> "ParseError", msg |-> msg]

\* the errors of strconv and of errors.New in GetBool
ConvError(kind, value) == [type |-> kind, value |-> value]

InvalidLinePrefix ==
    <<"i", "n", "v", "a", "l", "i", "d", " ", "l", "i", "n", "e", ":", " ">>

(***************************************************************************)
(* The tree.                                                               *)
(***************************************************************************)
EmptyTree == [s \in {} |-> 0]

\* newNode(key, value, root) stored at address self
newNode(key, value, root, self) ==
    [root  |-> IF root = 0 THEN self ELSE root,
     key   |-> key,
     value |-> value,
     tree  |-> EmptyTree]

\* put as it would be if an exact match kept a value the node already has
putFrameKeepFirst(ns, c, key, value) ==
    LET n == ns[c]
        partialKey == IF n.key # <<>> THEN ReplaceFirst(key, n.key \o Dot) ELSE key
        firstToken == Split(partialKey)[1]
        prefix == IF n.key # <<>> THEN n.key \o Dot ELSE n.key
        fresh == Len(ns) + 1
    IN  IF n.key # <<>> /\ key = n.key
        THEN [nodes |-> IF n.value = <<>> THEN [ns EXCEPT ![c].value = value] ELSE ns,
              done |-> TRUE, next |-> 0]
        ELSE IF n.key # <<>> /\ ~HasPrefix(key, n.key \o Dot)
        THEN [nodes |-> ns, done |-> FALSE, next |-> n.root]
        ELSE IF firstToken \in DOMAIN n.tree
        THEN [nodes |-> ns, done |-> FALSE, next |-> n.tree[firstToken]]
        ELSE [nodes |-> Append([ns EXCEPT ![c].tree = (firstToken :> fresh) @@ n.tree],
                               newNode(prefix \o firstToken, <<>>, n.root, fresh)),
              done  |-> FALSE,
              next  |-> fresh]

\* put as it would be if a new child got its segment alone for its key
putFrameSegmentKeys(ns, c, key, value) ==
    LET n == ns[c]
        partialKey == IF n.key # <<>> THEN ReplaceFirst(key, n.key \o Dot) ELSE key
        firstToken == Split(partialKey)[1]
        fresh == Len(ns) + 1
    IN  IF n.key # <<>> /\ key = n.key
        THEN [nodes |-> [ns EXCEPT ![c].value = value], done |-> TRUE, next |-> 0]
        ELSE IF n.key # <<>> /\ ~HasPrefix(key, n.key \o Dot)
        THEN [nodes |-> ns, done |-> FALSE, next |-> n.root]
        ELSE IF firstToken \in DOMAIN n.tree
        THEN [nodes |-> ns, done |-> FALSE, next |-> n.tree[firstToken]]
        ELSE [nodes |-> Append([ns EXCEPT ![c].tree = (firstToken :> fresh) @@ n.tree],
                               newNode(firstToken, <<>>, n.root, fresh)),
              done  |-> FALSE,
              next  |-> fresh]

\* put as it would be if setting the value of a node emptied its child map
putFrameDropChildren(ns, c, key, value) ==
    LET n == ns[c]
        partialKey == IF n.key # <<>> THEN ReplaceFirst(key, n.key \o Dot) ELSE key
        firstToken == Split(partialKey)[1]
        prefix == IF n.key # <<>> THEN n.key \o Dot ELSE n.key
        fresh == Len(ns) + 1
    IN  IF n.key # <<>> /\ key = n.key
        THEN [nodes |-> [ns EXCEPT ![c].value = value, ![c].tree = EmptyTree],
              done |-> TRUE, next |-> 0]
        ELSE IF n.key # <<>> /\ ~HasPrefix(key, n.key \o Dot)
        THEN [nodes |-> ns, done |-> FALSE, next |-> n.root]
        ELSE IF firstToken \in DOMAIN n.tree
        THEN [nodes |-> ns, done |-> FALSE, next |-> n.tree[firstToken]]
        ELSE [nodes |-> Append([ns EXCEPT ![c].tree = (firstToken :> fresh) @@ n.tree],
                               newNode(prefix \o firstToken, <<>>, n.root, fresh)),
              done  |-> FALSE,
              next  |-> fresh]

\* One invocation of n.put(key, value) on the heap ns with n = ns[c], up to
\* its return or its recursive call: the heap it leaves, whether it returned,
\* and the receiver of the recursive call.
putFrame(ns, c, key, value) ==
    LET n == ns[c]
        partialKey == IF n.key # <<>> THEN ReplaceFirst(key, n.key \o Dot) ELSE key
        firstToken == Split(partialKey)[1]
        prefix == IF n.key # <<>> THEN n.key \o Dot ELSE n.key
        fresh == Len(ns) + 1
    IN  IF n.key # <<>> /\ key = n.key
        THEN [nodes |-> [ns EXCEPT ![c].value = value], done |-> TRUE, next |-> 0]
        ELSE IF n.key # <<>> /\ ~HasPrefix(key, n.key \o Dot)
        THEN [nodes |-> ns, done |-> FALSE, next |-> n.root]
        ELSE IF firstToken \in DOMAIN n.tree
        THEN [nodes |-> ns, done |-> FALSE, next |-> n.tree[firstToken]]
        ELSE [nodes |-> Append([ns EXCEPT ![c].tree = (firstToken :> fresh) @@ n.tree],
                               newNode(prefix \o firstToken, <<>>, n.root, fresh)),
              done  |-> FALSE,
              next  |-> fresh]

\* the result of a findNode call: the node and the error it returns, the
\* heap it leaves, and whether it took the branch that starts over at the
\* root
Found(node, err, ns) ==
    [node |-> node, err |-> err, nodes |-> ns, restarted |-> FALSE]

\* findNode as it would be if it linked the child it does not find, as put
\* does
RECURSIVE findNodeLinking(_, _, _, _)
findNodeLinking(ns, c, key, fuel) ==
    LET n == ns[c]
        partialKey == IF n.key # <<>> THEN ReplaceFirst(key, n.key \o Dot) ELSE key
        firstToken == Split(partialKey)[1]
        prefix == IF n.key # <<>> THEN n.key \o Dot ELSE n.key
        fresh == Len(ns) + 1
    IN  IF fuel = 0
        THEN Found(0, [type |-> "stack overflow"], ns)
        ELSE IF n.key # <<>> /\ key = n.key
        THEN Found(c, Nil, ns)
        ELSE IF n.key # <<>> /\ ~HasPrefix(key, n.key \o Dot)
        THEN [findNodeLinking(ns, n.root, key, fuel - 1) EXCEPT !.restarted = TRUE]
        ELSE IF firstToken \notin DOMAIN n.tree
        THEN Found(0, nodeNotFound,
                   Append([ns EXCEPT ![c].tree = (firstToken :> fresh) @@ n.tree],
                          newNode(prefix \o firstToken, <<>>, n.root, fresh)))
        ELSE findNodeLinking(ns, n.tree[firstToken], key, fuel - 1)

\* findNode as it would be if it returned the node it has reached when the
\* next segment has no child
RECURSIVE findNodeNearest(_, _, _, _)
findNodeNearest(ns, c, key, fuel) ==
    LET n == ns[c]
        partialKey == IF n.key # <<>> THEN ReplaceFirst(key, n.key \o Dot) ELSE key
        firstToken == Split(partialKey)[1]
    IN  IF fuel = 0
        THEN Found(0, [type |-> "stack overflow"], ns)
        ELSE IF n.key # <<>> /\ key = n.key
        THEN Found(c, Nil, ns)
        ELSE IF n.key # <<>> /\ ~HasPrefix(key, n.key \o Dot)
        THEN [findNodeNearest(ns, n.root, key, fuel - 1) EXCEPT !.restarted = TRUE]
        ELSE IF firstToken \notin DOMAIN n.tree
        THEN Found(c, Nil, ns)
        ELSE findNodeNearest(ns, n.tree[firstToken], key, fuel - 1)

\* n.findNode(key) with n = ns[c]; fuel bounds the frames the stack holds
RECURSIVE findNode(_, _, _, _)
findNode(ns, c, key, fuel) ==
    LET n == ns[c]
        partialKey == IF n.key # <<>> THEN ReplaceFirst(key, n.key \o Dot) ELSE key
        firstToken == Split(partialKey)[1]
    IN  IF fuel = 0
        THEN Found(0, [type |-> "stack overflow"], ns)
        ELSE IF n.key # <<>> /\ key = n.key
        THEN Found(c, Nil, ns)
        ELSE IF n.key # <<>> /\ ~HasPrefix(key, n.key \o Dot)
        THEN [findNode(ns, n.root, key, fuel - 1) EXCEPT !.restarted = TRUE]
        ELSE IF firstToken \notin DOMAIN n.tree
        THEN Found(0, nodeNotFound, ns)
        ELSE findNode(ns, n.tree[firstToken], key, fuel - 1)

\* p.root.findNode(key)
find(key) == findNode(nodes, 1, key, MaxStack)

(***************************************************************************)
(* The regular expressions of the parser.                                  *)
(***************************************************************************)
\* where a greedy \s* that starts at i stops
SkipSpace(s, i) ==
    CHOOSE j \in i..(Len(s) + 1) :
        /\ \A k \in i..(j - 1) : IsSpace(s[k])
        /\ (j <= Len(s) => ~IsSpace(s[j]))

\* where a greedy [\w\.]* that starts at i stops
SkipIdent(s, i) ==
    CHOOSE j \in i..(Len(s) + 1) :
        /\ \A k \in i..(j - 1) : IsIdent(s[k])
        /\ (j <= Len(s) => ~IsIdent(s[j]))

\* the removal of a comment as it would be if a # behind a backslash did not
\* start one
stripCommentUnescaped(t) ==
    LET H == {j \in 1..Len(t) : t[j] = "#" /\ (j = 1 \/ t[j - 1] # "\\")}
        h == IF H = {} THEN 0 ELSE CHOOSE j \in H : \A k \in H : j <= k
        i == CHOOSE j \in 1..h :
                /\ \A k \in j..(h - 1) : IsSpace(t[k])
                /\ (j > 1 => ~IsSpace(t[j - 1]))
    IN  IF h = 0 THEN t ELSE SubSeq(t, 1, i - 1)

\* commentReplaceExpr.ReplaceAllString(text, ""), the expression \s*#.*$ :
\* the leftmost match starts at the white space in front of the first #
stripComment(t) ==
    LET h == Index(t, <<"#">>)
        i == CHOOSE j \in 1..h :
                /\ \A k \in j..(h - 1) : IsSpace(t[k])
                /\ (j > 1 => ~IsSpace(t[j - 1]))
    IN  IF h = 0 THEN t ELSE SubSeq(t, 1, i - 1)

\* sectionExpr.FindStringSubmatch(line), ^\s*\[([\w\.]+)\]\s*$ : match[1]
matchSection(line) ==
    LET a == SkipSpace(line, 1)
        b == SkipIdent(line, a + 1)
    IN  IF /\ a <= Len(line) /\ line[a] = "["
           /\ b > a + 1
           /\ b <= Len(line) /\ line[b] = "]"
           /\ SkipSpace(line, b + 1) = Len(line) + 1
        THEN [ok |-> TRUE, name |-> SubSeq(line, a + 1, b - 1)]
        ELSE [ok |-> FALSE, name |-> <<>>]

\* assignmentExpr.FindStringSubmatch(line), ^\s*([\w\.]+)\s*=\s*(.*)$ :
\* match[1] and match[2]
matchAssignment(line) ==
    LET a == SkipSpace(line, 1)
        b == SkipIdent(line, a)
        c == SkipSpace(line, b)
        d == SkipSpace(line, c + 1)
    IN  IF b > a /\ c <= Len(line) /\ line[c] = "="
        THEN [ok |-> TRUE, key |-> SubSeq(line, a, b - 1),
              value |-> SubSeq(line, d, Len(line))]
        ELSE [ok |-> FALSE, key |-> <<>>, value |-> <<>>]

\* parse as it would be if the error carried the line after comment removal
parseLineStripped(t, section) ==
    LET line == Trim(stripComment(t))
        sec  == matchSection(line)
        asg  == matchAssignment(line)
    IN  IF line = <<>>
        THEN [kind |-> "skip", section |-> section, key |-> <<>>, value |-> <<>>,
              err |-> Nil]
        ELSE IF sec.ok
        THEN [kind |-> "section", section |-> sec.name \o Dot, key |-> <<>>,
              value |-> <<>>, err |-> Nil]
        ELSE IF asg.ok
        THEN [kind |-> "put", section |-> section, key |-> section \o asg.key,
              value |-> asg.value, err |-> Nil]
        ELSE [kind |-> "error", section |-> section, key |-> <<>>, value |-> <<>>,
              err |-> ParseError(InvalidLinePrefix \o line)]

\* parse as it would be if a header created the node of its section
parseLineSectionNode(t, section) ==
    LET line == Trim(stripComment(t))
        sec  == matchSection(line)
        asg  == matchAssignment(line)
    IN  IF line = <<>>
        THEN [kind |-> "skip", section |-> section, key |-> <<>>, value |-> <<>>,
              err |-> Nil]
        ELSE IF sec.ok
        THEN [kind |-> "put", section |-> sec.name \o Dot, key |-> sec.name,
              value |-> <<>>, err |-> Nil]
        ELSE IF asg.ok
        THEN [kind |-> "put", section |-> section, key |-> section \o asg.key,
              value |-> asg.value, err |-> Nil]
        ELSE [kind |-> "error", section |-> section, key |-> <<>>, value |-> <<>>,
              err |-> ParseError(InvalidLinePrefix \o t)]

\* parse as it would be if a header nested under the section in force
parseLineNested(t, section) ==
    LET line == Trim(stripComment(t))
        sec  == matchSection(line)
        asg  == matchAssignment(line)
    IN  IF line = <<>>
        THEN [kind |-> "skip", section |-> section, key |-> <<>>, value |-> <<>>,
              err |-> Nil]
        ELSE IF sec.ok
        THEN [kind |-> "section", section |-> section \o sec.name \o Dot,
              key |-> <<>>, value |-> <<>>, err |-> Nil]
        ELSE IF asg.ok
        THEN [kind |-> "put", section |-> section, key |-> section \o asg.key,
              value |-> asg.value, err |-> Nil]
        ELSE [kind |-> "error", section |-> section, key |-> <<>>, value |-> <<>>,
              err |-> ParseError(InvalidLinePrefix \o t)]

\* One iteration of the loop of parse on the raw line t with the current
\* section prefix: what the iteration does.
parseLine(t, section) ==
    LET line == Trim(stripComment(t))
        sec  == matchSection(line)
        asg  == matchAssignment(line)
    IN  IF line = <<>>
        THEN [kind |-> "skip", section |-> section, key |-> <<>>, value |-> <<>>,
              err |-> Nil]
        ELSE IF sec.ok
        THEN [kind |-> "section", section |-> sec.name \o Dot, key |-> <<>>,
              value |-> <<>>, err |-> Nil]
        ELSE IF asg.ok
        THEN [kind |-> "put", section |-> section, key |-> section \o asg.key,
              value |-> asg.value, err |-> Nil]
        ELSE [kind |-> "error", section |-> section, key |-> <<>>, value |-> <<>>,
              err |-> ParseError(InvalidLinePrefix \o t)]

(***************************************************************************)
(* The input format as its description states it: declarative, and         *)
(* independent of the matching above.  The history variables use it.       *)
(***************************************************************************)
Content(t) ==
    LET h == Index(t, <<"#">>) IN IF h = 0 THEN t ELSE SubSeq(t, 1, h - 1)

IsBlankLine(t) == \A i \in 1..Len(Content(t)) : IsSpace(Content(t)[i])

IsHeaderLine(t) ==
    LET c == Content(t)
    IN  \E i, j \in 1..Len(c) :
            /\ c[i] = "[" /\ c[j] = "]" /\ i + 1 < j
            /\ \A k \in 1..(i - 1) : IsSpace(c[k])
            /\ \A k \in (i + 1)..(j - 1) : IsIdent(c[k])
            /\ \A k \in (j + 1)..Len(c) : IsSpace(c[k])

IsAssignmentLine(t) ==
    LET c == Content(t)
    IN  \E a, b, e \in 1..Len(c) :
            /\ a <= b /\ b < e /\ c[e] = "="
            /\ \A k \in 1..(a - 1) : IsSpace(c[k])
            /\ \A k \in a..b : IsIdent(c[k])
            /\ \A k \in (b + 1)..(e - 1) : IsSpace(c[k])

IsInvalidLine(t) == ~IsBlankLine(t) /\ ~IsHeaderLine(t) /\ ~IsAssignmentLine(t)

\* the name a header line gives: what stands between the brackets
HeaderName(t) ==
    SubSeq(t, Index(t, <<"[">>) + 1, Index(t, <<"]">>) - 1)

\* the key an assignment line gives: the identifier in front of the = sign
LineKey(t) ==
    LET e == Index(t, <<"=">>)
    IN  SelectSeq(SubSeq(t, 1, e - 1), IsIdent)

NoHeader == <<"-">>

(***************************************************************************)
(* Inputs.                                                                 *)
(***************************************************************************)
LinePool ==
    { <<"a", "=", "1">>,
      <<"a", ".", "b", " ", "=", " ", "y", "e", "s", " ", "#", " ", "c">>,
      <<"b", "=", "y", "e", "s">>,
      <<"b", "=", "\\", "#", "1">>,
      <<"a", "b", "=">>,
      <<".", "a", "=", "x">>,
      <<"a", ".", "=", "N", "o">>,
      <<"a", " ", "=", " ", "4", ".", "5">>,
      <<"[", "a", "]">>,
      <<" ", "[", "a", ".", "b", "]", " ", "#", "s">>,
      <<" ", "#", " ", "c">>,
      <<"b", " ", "c">>,
      <<"x", " ", "#", "=", "1">> }

ProbeKeys ==
    { <<>>, <<"a">>, <<"a", ".", "b">>, <<"a", "b">>, <<"c">>, <<"a", ".">>,
      <<"a", ".", "a">> }

NoResp == [op |-> "none"]

\* the errors a bufio.Scanner can stop with: a line longer than its buffer,
\* and the error of the reader
ErrTooLong == [type |-> "bufio.Scanner: token too long"]

ErrRead == [type |-> "read error"]

ScanErrors == {ErrTooLong, ErrRead}

(***************************************************************************)
(* Load: the scanner loop of parse and the puts it issues.                 *)
(***************************************************************************)
Init ==
    /\ nodes = <<newNode(<<>>, <<>>, 0, 1)>>
    /\ pc = "parse"
    /\ currentSection = <<>>
    /\ text = <<>>
    /\ cur = 0
    /\ pkey = <<>>
    /\ pvalue = <<>>
    /\ depth = 0
    /\ ret = [props |-> 0, err |-> Nil]
    /\ resp = NoResp
    /\ nread = 0
    /\ overwritten = {}
    /\ nbad = 0
    /\ header = NoHeader
    /\ assigned = EmptyTree
    /\ before = <<>>
    /\ scanErr = Nil
    /\ skipped = 0

\* scanner.Scan() delivers a line and parse handles it
Scan ==
    /\ pc = "parse"
    /\ nread < MaxLines
    /\ \E t \in LinePool :
        LET r == parseLine(t, currentSection)
        IN  /\ nread' = nread + 1
            /\ nbad' = IF IsInvalidLine(t) THEN nbad + 1 ELSE nbad
            /\ header' = IF IsHeaderLine(t) THEN t ELSE header
            /\ currentSection' = r.section
            /\ before' = IF r.kind = "put" THEN nodes ELSE <<>>
            /\ IF r.kind = "put"
               THEN /\ pc' = "put"
                    /\ text' = t
                    /\ cur' = 1
                    /\ pkey' = r.key
                    /\ pvalue' = r.value
                    /\ depth' = 1
                    /\ overwritten' =
                          IF r.key \in DOMAIN assigned /\ assigned[r.key] # r.value
                          THEN overwritten \cup {r.key}
                          ELSE overwritten
                    /\ assigned' = (r.key :> r.value) @@ assigned
                    /\ UNCHANGED ret
               ELSE IF r.kind = "error"
               THEN /\ pc' = "failed"
                    /\ text' = t
                    /\ ret' = [props |-> 0, err |-> r.err]
                    /\ UNCHANGED <<cur, pkey, pvalue, depth, overwritten, assigned>>
               ELSE /\ UNCHANGED <<pc, text, cur, pkey, pvalue, depth, overwritten,
                                   assigned, ret>>
    /\ UNCHANGED <<nodes, resp, scanErr, skipped>>

\* one frame of the put in progress runs to its return or its recursive call
put ==
    /\ pc = "put"
    /\ LET f == putFrame(nodes, cur, pkey, pvalue)
       IN  /\ f.done \/ depth < MaxStack
           /\ nodes' = f.nodes
           /\ IF f.done
              THEN /\ pc' = "parse"
                   /\ cur' = 0
                   /\ depth' = 0
                   /\ pkey' = <<>>
                   /\ pvalue' = <<>>
                   /\ text' = <<>>
              ELSE /\ cur' = f.next
                   /\ depth' = depth + 1
                   /\ UNCHANGED <<pc, pkey, pvalue, text>>
    /\ UNCHANGED <<currentSection, ret, resp, nread, overwritten, nbad, header,
                   assigned, before, scanErr, skipped>>

\* the recursive call of put finds the stack exhausted: the runtime aborts
stackOverflow ==
    /\ pc = "put"
    /\ LET f == putFrame(nodes, cur, pkey, pvalue)
       IN  /\ ~f.done
           /\ depth = MaxStack
           /\ nodes' = f.nodes
    /\ pc' = "crashed"
    /\ UNCHANGED <<currentSection, text, cur, pkey, pvalue, depth, ret, resp,
                   nread, overwritten, nbad, header, assigned, before, scanErr,
                   skipped>>

\* scanner.Scan() returns false at the end of the input: parse returns nil
\* and Load returns p
Eof ==
    /\ pc = "parse"
    /\ pc' = "loaded"
    /\ ret' = [props |-> 1, err |-> Nil]
    /\ before' = <<>>
    /\ UNCHANGED <<nodes, currentSection, text, cur, pkey, pvalue, depth, resp,
                   nread, overwritten, nbad, header, assigned, scanErr, skipped>>

\* scanner.Scan() returns false because the reader failed or the next line
\* does not fit the scanner's buffer: the loop of parse ends as it does at
\* the end of the input, parse returns nil and Load returns p.  The line t
\* is what the input holds where the scanner stopped.
ScanFails ==
    /\ pc = "parse"
    /\ nread < MaxLines
    /\ \E e \in ScanErrors : scanErr' = e
    /\ \E t \in LinePool : skipped' = IF IsAssignmentLine(t) THEN 1 ELSE 0
    /\ pc' = "loaded"
    /\ ret' = [props |-> 1, err |-> Nil]
    /\ before' = <<>>
    /\ UNCHANGED <<nodes, currentSection, text, cur, pkey, pvalue, depth, resp,
                   nread, overwritten, nbad, header, assigned>>

(***************************************************************************)
(* strconv, on the literals the values of the model can spell: an optional *)
(* sign, decimal digits and, for floats, one decimal point.  A float is    *)
(* kept as its digits and the number of them behind the point.             *)
(***************************************************************************)
DigitValue(c) == (CHOOSE i \in 1..Len(DigitChars) : DigitChars[i] = c) - 1

RECURSIVE Decimal(_)
Decimal(s) ==
    IF s = <<>> THEN 0
    ELSE 10 * Decimal(SubSeq(s, 1, Len(s) - 1)) + DigitValue(s[Len(s)])

Unsigned(s) == IF s # <<>> /\ s[1] \in {"+", "-"} THEN Tail(s) ELSE s

Sign(s) == IF s # <<>> /\ s[1] = "-" THEN -1 ELSE 1

\* strconv.ParseInt(value, 10, 64)
ParseInt(s) ==
    LET u == Unsigned(s)
    IN  IF u # <<>> /\ \A i \in 1..Len(u) : IsDigit(u[i])
        THEN [val |-> Sign(s) * Decimal(u), err |-> Nil]
        ELSE [val |-> 0, err |-> ConvError("NumError", s)]

ZeroFloat == [digits |-> 0, scale |-> 0]

\* strconv.ParseFloat(value, 64)
ParseFloat(s) ==
    LET u == Unsigned(s)
        p == Index(u, Dot)
        d == SelectSeq(u, IsDigit)
    IN  IF /\ d # <<>>
           /\ Len(d) \in {Len(u), Len(u) - 1}
           /\ (Len(d) = Len(u) - 1 => p # 0)
        THEN [val |-> [digits |-> Sign(s) * Decimal(d),
                       scale  |-> IF p = 0 THEN 0 ELSE Len(u) - p],
              err |-> Nil]
        ELSE [val |-> ZeroFloat, err |-> ConvError("NumError", s)]

trueValues == {<<"t", "r", "u", "e">>, <<"y", "e", "s">>, <<"1">>}

falseValues == {<<"f", "a", "l", "s", "e">>, <<"n", "o">>, <<"0">>}

(***************************************************************************)
(* The accessors of a loaded Properties: the value and the error returned. *)
(***************************************************************************)
\* GetString as it would be if a node without a value counted as missing
GetStringMissing(key) ==
    LET r == find(key)
    IN  IF r.err # Nil THEN [val |-> <<>>, err |-> r.err]
        ELSE IF nodes[r.node].value = <<>>
        THEN [val |-> <<>>, err |-> nodeNotFound]
        ELSE [val |-> nodes[r.node].value, err |-> Nil]

\* GetString as it would be without the test for an empty value
GetStringUnchecked(key) ==
    LET r == find(key)
    IN  IF r.err # Nil THEN [val |-> <<>>, err |-> r.err]
        ELSE [val |-> nodes[r.node].value, err |-> Nil]

GetString(key) ==
    LET r == find(key)
    IN  IF r.err # Nil THEN [val |-> <<>>, err |-> r.err]
        ELSE IF nodes[r.node].value = <<>>
        THEN [val |-> <<>>, err |-> NoValueError(key)]
        ELSE [val |-> nodes[r.node].value, err |-> Nil]

\* GetInt as it would be if it converted without looking at GetString's error
GetIntUnchecked(key) ==
    LET g == GetString(key)
    IN  IF ParseInt(g.val).err # Nil
        THEN [val |-> 0, err |-> ParseInt(g.val).err]
        ELSE [val |-> ParseInt(g.val).val, err |-> Nil]

GetInt(key) ==
    LET g == GetString(key)
    IN  IF g.err # Nil THEN [val |-> 0, err |-> g.err]
        ELSE IF ParseInt(g.val).err # Nil
        THEN [val |-> 0, err |-> ParseInt(g.val).err]
        ELSE [val |-> ParseInt(g.val).val, err |-> Nil]

\* GetBool as it would be if it compared the value without lowering it
GetBoolCaseSensitive(key) ==
    LET g == GetString(key)
        value == g.val
    IN  IF g.err # Nil THEN [val |-> FALSE, err |-> g.err]
        ELSE IF value \in trueValues THEN [val |-> TRUE, err |-> Nil]
        ELSE IF value \in falseValues THEN [val |-> FALSE, err |-> Nil]
        ELSE [val |-> FALSE, err |-> ConvError("invalid boolean value", value)]

GetBool(key) ==
    LET g == GetString(key)
        value == ToLower(g.val)
    IN  IF g.err # Nil THEN [val |-> FALSE, err |-> g.err]
        ELSE IF value \in trueValues THEN [val |-> TRUE, err |-> Nil]
        ELSE IF value \in falseValues THEN [val |-> FALSE, err |-> Nil]
        ELSE [val |-> FALSE, err |-> ConvError("invalid boolean value", value)]

GetFloat(key) ==
    LET g == GetString(key)
    IN  IF g.err # Nil THEN [val |-> ZeroFloat, err |-> g.err]
        ELSE IF ParseFloat(g.val).err # Nil
        THEN [val |-> ZeroFloat, err |-> ParseFloat(g.val).err]
        ELSE [val |-> ParseFloat(g.val).val, err |-> Nil]

\* KeyExists as it would be if it compared with a newly built error
KeyExistsFresh(key) ==
    find(key).err # [type |-> "NodeNotFoundError", addr |-> "fresh"]

KeyExists(key) == find(key).err # nodeNotFound

\* the orders in which a range over the map m can deliver its keys
MapOrders(m) ==
    {o \in [1..Cardinality(DOMAIN m) -> DOMAIN m] :
        \A i, j \in DOMAIN o : i # j => o[i] # o[j]}

\* Subkeys as it would be if it returned the keys of the child nodes
SubkeysFullPaths(key) ==
    LET r == find(key)
        t == nodes[r.node].tree
    IN  IF r.err # Nil THEN [vals |-> {<<>>}, err |-> r.err]
        ELSE [vals |-> {[i \in DOMAIN o |-> nodes[t[o[i]]].key] : o \in MapOrders(t)},
              err |-> Nil]

\* Subkeys(key): the slices it can return, and the error
Subkeys(key) ==
    LET r == find(key)
    IN  IF r.err # Nil THEN [vals |-> {<<>>}, err |-> r.err]
        ELSE [vals |-> MapOrders(nodes[r.node].tree), err |-> Nil]

\* a method of the loaded Properties is called and returns, leaving the heap
\* as its findNode call leaves it; the model follows one call on each
\* Properties that Load returns
Lookup(op, key, val, err) ==
    /\ pc = "loaded"
    /\ resp = NoResp
    /\ resp' = [op |-> op, key |-> key, val |-> val, err |-> err]
    /\ nodes' = find(key).nodes
    /\ UNCHANGED <<pc, currentSection, text, cur, pkey, pvalue, depth,
                   ret, nread, overwritten, nbad, header, assigned, before,
                   scanErr, skipped>>

CallGetString ==
    \E k \in ProbeKeys : Lookup("GetString", k, GetString(k).val, GetString(k).err)

CallGetInt ==
    \E k \in ProbeKeys : Lookup("GetInt", k, GetInt(k).val, GetInt(k).err)

CallGetBool ==
    \E k \in ProbeKeys : Lookup("GetBool", k, GetBool(k).val, GetBool(k).err)

CallGetFloat ==
    \E k \in ProbeKeys : Lookup("GetFloat", k, GetFloat(k).val, GetFloat(k).err)

CallKeyExists ==
    \E k \in ProbeKeys : Lookup("KeyExists", k, KeyExists(k), Nil)

CallSubkeys ==
    \E k \in ProbeKeys : \E v \in Subkeys(k).vals :
        Lookup("Subkeys", k, v, Subkeys(k).err)

Next ==
    \/ Scan
    \/ put
    \/ stackOverflow
    \/ Eof
    \/ ScanFails
    \/ CallGetString
    \/ CallGetInt
    \/ CallGetBool
    \/ CallGetFloat
    \/ CallKeyExists
    \/ CallSubkeys

Spec == Init /\ [][Next]_vars

(***************************************************************************)
(* Properties.                                                             *)
(***************************************************************************)
\* nodes whose key is k
NodesOf(k) == {i \in DOMAIN nodes : nodes[i].key = k}

\* no put is in progress, the process is alive and no method of Properties
\* has been called yet (a call leaves the tree as it is)
Quiescent == pc \in {"parse", "loaded", "failed"} /\ resp = NoResp

\* Load has returned the Properties and no method has been called yet
Loaded == pc = "loaded" /\ resp = NoResp

KeyA == <<"a">>
KeyAB == <<"a", ".", "b">>

\* C1: last write wins.  Whenever no put is in progress, every key that was
\* put is found from the root, the node found holds the value of the most
\* recent put of that key, and exactly one node carries that key.
C1_LastWriteWins ==
    Quiescent =>
        \A k \in DOMAIN assigned :
            /\ find(k).err = Nil
            /\ nodes[find(k).node].value = assigned[k]
            /\ Cardinality(NodesOf(k)) = 1

\* C1 happens: a key with a descendant was put again with another value
C1_Witness ==
    /\ pc = "parse"
    /\ KeyA \in overwritten
    /\ KeyAB \in DOMAIN assigned
    /\ find(KeyA).err = Nil
    /\ nodes[find(KeyA).node].value = assigned[KeyA]

\* the first segments of the assigned fully-qualified keys
TopSegments == {Split(k)[1] : k \in DOMAIN assigned}

\* C2: after a successful Load, Subkeys("") succeeds and returns exactly
\* the first segments of the assigned keys.
C2_SubkeysRoot ==
    (pc = "loaded" /\ resp.op = "Subkeys" /\ resp.key = <<>>) =>
        /\ resp.err = Nil
        /\ Range(resp.val) = TopSegments

\* C3: a line that matches no grammar makes Load return a ParseError with
\* the raw text of that line and no Properties; it is the first such line
\* and the last line delivered, and nothing happens after it.
C3_Aborted ==
    /\ pc = "failed" =>
          /\ ret.props = 0
          /\ ret.err = ParseError(InvalidLinePrefix \o text)
          /\ IsInvalidLine(text)
          /\ nbad = 1
          /\ resp = NoResp
    /\ pc # "failed" =>
          /\ nbad = 0
          /\ ret.err = Nil
          /\ (ret.props # 0 <=> pc = "loaded")

C3_ParseErrorAborts == []C3_Aborted /\ [][pc = "failed" => vars' = vars]_vars

\* C3 happens: Load failed on a line with a comment after valid lines had
\* built nodes
C3_Witness ==
    /\ pc = "failed"
    /\ nread > 1
    /\ Len(nodes) > 1
    /\ Index(text, <<"#">>) # 0

\* C4: every put the parser issues finishes within as many recursive calls
\* as its key has segments, and Load returns.
C4_PutTerminates ==
    /\ pc = "put" => depth - 1 <= Len(Split(pkey))
    /\ pc # "crashed"

\* k is a key below which keys were assigned and which was not assigned
IsIntermediate(k) ==
    /\ k \notin DOMAIN assigned
    /\ \E a \in DOMAIN assigned : HasPrefix(a, k \o Dot)

\* the segment-aligned proper prefixes of the assigned keys
Prefixes ==
    UNION {{SubSeq(a, 1, i - 1) : i \in {j \in 1..Len(a) : a[j] = "."}} :
              a \in DOMAIN assigned}

\* C5: a key that is only an intermediate path exists, and GetString on it
\* fails with the NoValue error that carries the key.
C5_IntermediateNoValue ==
    pc = "loaded" =>
        /\ Loaded =>
              \A k \in Prefixes \cup ProbeKeys :
                  IsIntermediate(k) =>
                      /\ KeyExists(k)
                      /\ GetString(k) = [val |-> <<>>, err |-> NoValueError(k)]
        /\ (resp.op = "GetString" /\ IsIntermediate(resp.key)) =>
              resp.err = NoValueError(resp.key)
        /\ (resp.op = "KeyExists" /\ IsIntermediate(resp.key)) => resp.val

\* C5 happens: GetString was called on a section that has children only
C5_Witness ==
    /\ pc = "loaded"
    /\ resp.op = "GetString"
    /\ resp.key = KeyA
    /\ IsIntermediate(KeyA)
    /\ header # NoHeader
    /\ resp.err = NoValueError(KeyA)

\* C6 as stated: every key that was the target of an assignment yields the
\* value of its last assignment, without error.
C6_AssignedHasValue ==
    Loaded =>
        \A k \in DOMAIN assigned :
            GetString(k) = [val |-> assigned[k], err |-> Nil]

\* C6 as amended: a key that was the target of an assignment yields the
\* value of its last assignment when that value is not empty and fails with
\* NoValue when it is empty; NoValue is returned for no other keys than
\* these and the keys that were never the target of an assignment.
C6_NoValueIffEmpty ==
    pc = "loaded" =>
        /\ Loaded =>
              \A k \in DOMAIN assigned :
                  GetString(k) =
                      IF assigned[k] # <<>>
                      THEN [val |-> assigned[k], err |-> Nil]
                      ELSE [val |-> <<>>, err |-> NoValueError(k)]
        /\ (resp.op = "GetString" /\ resp.err.type = "NoValueError") =>
              (resp.key \in DOMAIN assigned => assigned[resp.key] = <<>>)
        /\ (resp.op = "GetString" /\ resp.key \in DOMAIN assigned
                /\ assigned[resp.key] # <<>>) =>
              (resp.err = Nil /\ resp.val = assigned[resp.key])

\* C6 happens: GetString was called on a key that was assigned the empty
\* value, in a tree where the value of another key was overwritten
C6_Witness ==
    /\ pc = "loaded"
    /\ resp.op = "GetString"
    /\ resp.key \in DOMAIN assigned
    /\ assigned[resp.key] = <<>>
    /\ resp.err = NoValueError(resp.key)
    /\ \E k \in overwritten : GetString(k) = [val |-> assigned[k], err |-> Nil]

\* C7: a lookup fails with the one nodeNotFound value and with nothing
\* else, KeyExists is true exactly when findNode finds a node, with or
\* without a value, and GetString of a missing path returns nodeNotFound.
C7_Sentinel ==
    pc = "loaded" =>
        /\ Loaded =>
              \A k \in ProbeKeys \cup Prefixes \cup DOMAIN assigned :
                  /\ find(k).err \in {Nil, nodeNotFound}
                  /\ KeyExists(k) <=> find(k).node # 0
                  /\ find(k).node = 0 => GetString(k).err = nodeNotFound
        /\ resp.op = "KeyExists" => (resp.val <=> find(resp.key).node # 0)
        /\ (resp.op = "GetString" /\ find(resp.key).node = 0) =>
              resp.err = nodeNotFound

\* C7 happens: KeyExists answered false for a missing key of a tree that
\* holds a node without a value, for which it answers true
C7_Witness ==
    /\ pc = "loaded"
    /\ resp.op = "KeyExists"
    /\ ~resp.val
    /\ Len(nodes) > 1
    /\ \E k \in Prefixes : IsIntermediate(k) /\ KeyExists(k)

\* the strings without a dot that occur in the assigned keys
Segments ==
    {s \in {<<>>} \cup UNION {{SubSeq(a, i, j) : i, j \in 1..Len(a)} :
                                a \in DOMAIN assigned} :
        "." \notin Range(s)}

\* the immediate child segments of k that the assigned keys call for
ChildSegments(k) ==
    {s \in Segments :
        \E a \in DOMAIN assigned :
            a = k \o Dot \o s \/ HasPrefix(a, k \o Dot \o s \o Dot)}

\* C8: Subkeys of a key that resolves returns the immediate child segments
\* of its node, each once and without a dot; Subkeys of a key that does not
\* resolve returns nodeNotFound and an empty list.
\* v with error e is a right answer of Subkeys(k)
SubkeysAnswer(k, v, e) ==
    IF find(k).node # 0
    THEN /\ e = Nil
         /\ Range(v) = ChildSegments(k)
         /\ \A i, j \in DOMAIN v : i # j => v[i] # v[j]
         /\ \A i \in DOMAIN v : "." \notin Range(v[i])
    ELSE /\ e = nodeNotFound
         /\ v = <<>>

C8_Subkeys ==
    /\ (pc = "loaded" /\ resp.op = "Subkeys") =>
          SubkeysAnswer(resp.key, resp.val, resp.err)
    /\ Loaded =>
          \A k \in Prefixes \cup DOMAIN assigned :
              \A v \in Subkeys(k).vals : SubkeysAnswer(k, v, Subkeys(k).err)

\* C8 happens: Subkeys returned two children of a node that has
\* grandchildren
C8_Witness ==
    /\ pc = "loaded"
    /\ resp.op = "Subkeys"
    /\ resp.key = KeyA
    /\ Len(resp.val) = 2
    /\ \E a \in DOMAIN assigned : Len(Split(a)) > 2

\* the nodes as pairs of key and value
KeyValues == {<<nodes[i].key, nodes[i].value>> : i \in DOMAIN nodes}

\* the pairs a tree holds that was built from the assigned keys alone
AssignedKeyValues ==
    {<<k, IF k \in DOMAIN assigned THEN assigned[k] ELSE <<>> >> :
        k \in {<<>>} \cup Prefixes \cup DOMAIN assigned}

\* the prefix the last header delivered gives
HeaderPrefix == IF header = NoHeader THEN <<>> ELSE HeaderName(header) \o Dot

\* C9: an assignment is put under the name of the last header delivered, a
\* dot and its key (its key alone before any header), and the tree that
\* results is the tree of the fully-qualified keys.
C9_SectionScoping ==
    /\ pc = "put" => pkey = HeaderPrefix \o LineKey(text)
    /\ currentSection = HeaderPrefix
    /\ (pc \in {"parse", "loaded"} /\ resp = NoResp) =>
          KeyValues = AssignedKeyValues

\* C9 happens: the assignment of b after the header [a] gave the tree that
\* the top-level assignment of a.b gives
C9_Witness ==
    /\ pc = "loaded"
    /\ header = <<"[", "a", "]">>
    /\ currentSection = <<"a", ".">>
    /\ KeyValues = {<< <<>>, <<>> >>, <<KeyA, <<>> >>, <<KeyAB, <<"y", "e", "s">> >>}

ConversionErrors == {"NumError", "invalid boolean value"}

Zero(op) ==
    IF op = "GetInt" THEN 0 ELSE IF op = "GetBool" THEN FALSE ELSE ZeroFloat

\* some assigned key is k or lies below k
IsPath(k) == \E a \in DOMAIN assigned : a = k \/ HasPrefix(a, k \o Dot)

HasValue(k) == k \in DOMAIN assigned /\ assigned[k] # <<>>

\* C10: GetInt, GetFloat and GetBool return nodeNotFound for a key that
\* does not exist, NoValue for a key that exists without a value, a
\* conversion error only for a key with a value, and the zero value with
\* every error.
C10_TypedGetters ==
    (pc = "loaded" /\ resp.op \in {"GetInt", "GetFloat", "GetBool"}) =>
        /\ ~IsPath(resp.key) => resp.err = nodeNotFound
        /\ (IsPath(resp.key) /\ ~HasValue(resp.key)) =>
              resp.err = NoValueError(resp.key)
        /\ HasValue(resp.key) => resp.err.type \in ConversionErrors \cup {"nil"}
        /\ resp.err.type \in ConversionErrors => HasValue(resp.key)
        /\ resp.err # Nil => resp.val = Zero(resp.op)

\* C10 happens: GetInt was called on a key without a value, in a tree that
\* holds a value that is no integer
C10_Witness ==
    /\ pc = "loaded"
    /\ resp.op = "GetInt"
    /\ IsPath(resp.key)
    /\ ~HasValue(resp.key)
    /\ resp.err = NoValueError(resp.key)
    /\ resp.val = 0
    /\ \E k \in DOMAIN assigned : GetInt(k).err.type = "NumError"

\* v and w are the same string up to the case of their letters
EqualFold(v, w) ==
    /\ Len(v) = Len(w)
    /\ \A i \in 1..Len(v) :
          \/ v[i] = w[i]
          \/ \E j \in 1..Len(LowerChars) :
                {v[i], w[i]} = {LowerChars[j], UpperChars[j]}

TrueTokens == {<<"t", "r", "u", "e">>, <<"y", "e", "s">>, <<"1">>}

FalseTokens == {<<"f", "a", "l", "s", "e">>, <<"n", "o">>, <<"0">>}

IsTrueValue(v) == \E w \in TrueTokens : EqualFold(v, w)

IsFalseValue(v) == \E w \in FalseTokens : EqualFold(v, w)

\* C11: on a key with a stored value GetBool returns true without an error
\* exactly when the value is, up to case, one of true, yes, 1; false without
\* an error exactly when it is one of false, no, 0; and for every other
\* stored value the error "invalid boolean value".
C11_GetBool ==
    Loaded =>
        \A k \in {a \in DOMAIN assigned : HasValue(a)} :
            LET v == assigned[k]
                g == GetBool(k)
            IN  /\ (g.val = TRUE /\ g.err = Nil) <=> IsTrueValue(v)
                /\ (g.val = FALSE /\ g.err = Nil) <=> IsFalseValue(v)
                /\ (~IsTrueValue(v) /\ ~IsFalseValue(v)) <=>
                      (g.err.type = "invalid boolean value" /\ g.val = FALSE)

\* C11 happens: GetBool returned false for a value written No, and the tree
\* holds a true token and a value that is no boolean
C11_Witness ==
    /\ pc = "loaded"
    /\ resp.op = "GetBool"
    /\ HasValue(resp.key)
    /\ assigned[resp.key] = <<"N", "o">>
    /\ resp.val = FALSE
    /\ resp.err = Nil
    /\ \E k \in DOMAIN assigned : GetBool(k) = [val |-> TRUE, err |-> Nil]
    /\ \E k \in DOMAIN assigned : GetBool(k).err.type = "invalid boolean value"

\* where the first # of t stands, 0 if there is none
FirstHash(t) == Index(t, <<"#">>)

\* where the first # of t stands that no backslash precedes, 0 if none
FirstUnescapedHash(t) ==
    LET H == {j \in 1..Len(t) : t[j] = "#" /\ (j = 1 \/ t[j - 1] # "\\")}
    IN  IF H = {} THEN 0 ELSE CHOOSE j \in H : \A k \in H : j <= k

\* the value of the assignment line t whose comment starts at h: what stands
\* between the = sign and the comment, without the white space around it
LineValue(t, h) ==
    LET e == Index(t, <<"=">>)
        last == IF h = 0 THEN Len(t) ELSE h - 1
        V == {j \in (e + 1)..last : ~IsSpace(t[j])}
    IN  IF V = {} THEN <<>>
        ELSE SubSeq(t, CHOOSE j \in V : \A k \in V : j <= k,
                       CHOOSE j \in V : \A k \in V : j >= k)

\* C12 as stated: the value an assignment line stores ends where the first
\* unescaped # starts a comment, and an escaped # stays in the value.
C12_CommentAtUnescapedHash ==
    pc = "put" => pvalue = LineValue(text, FirstUnescapedHash(text))

\* C12, amended: the comment starts at the first # of the line, escaped or
\* not; the value an assignment line stores is what stands between the =
\* sign and that #, without the white space in front of the #.
C12_CommentAtFirstHash ==
    pc = "put" => pvalue = LineValue(text, FirstHash(text))

\* C12 happens: a line with \# is being put with the backslash alone as its
\* value, after a.b was assigned yes by a line that ends in a comment
C12_Witness ==
    /\ pc = "put"
    /\ text = <<"b", "=", "\\", "#", "1">>
    /\ pvalue = <<"\\">>
    /\ KeyAB \in DOMAIN assigned
    /\ assigned[KeyAB] = <<"y", "e", "s">>

\* p is k without one or more of its last segments
IsProperPrefix(p, k) == HasPrefix(k, p \o Dot)

\* what a put of v under k may make of the heap old: no node goes, no key
\* and no other value changes, the node of k holds v, the new nodes are k
\* and prefixes of k that no node carried and hold no value unless they are
\* k, and a child map changes only by new entries for new nodes, in the root
\* and in the nodes of prefixes of k
Frame(old, new, k, v) ==
    /\ Len(new) >= Len(old)
    /\ \A i \in DOMAIN old :
          /\ new[i].key = old[i].key
          /\ new[i].root = old[i].root
          /\ old[i].key # k => new[i].value = old[i].value
          /\ DOMAIN old[i].tree \subseteq DOMAIN new[i].tree
          /\ \A s \in DOMAIN old[i].tree : new[i].tree[s] = old[i].tree[s]
          /\ \A s \in DOMAIN new[i].tree \ DOMAIN old[i].tree :
                new[i].tree[s] > Len(old)
          /\ (i # 1 /\ ~IsProperPrefix(old[i].key, k)) => new[i].tree = old[i].tree
    /\ \E i \in DOMAIN new : new[i].key = k
    /\ \A i \in DOMAIN new : new[i].key = k => new[i].value = v
    /\ \A i \in DOMAIN new \ DOMAIN old :
          /\ new[i].key = k \/ IsProperPrefix(new[i].key, k)
          /\ \A j \in DOMAIN old : old[j].key # new[i].key
          /\ new[i].key # k => new[i].value = <<>>
    /\ (\E i \in DOMAIN old : old[i].key = k) =>
          /\ Len(new) = Len(old)
          /\ \A i \in DOMAIN old : new[i].tree = old[i].tree

\* C13: a put of v under k that returns has changed the value of the node
\* of k only: it has removed no node, added nodes only for k and for the
\* prefixes of k that did not exist, each without a value, and left the
\* value and the children of every other node as they were; a put of a key
\* that has descendants leaves them undisturbed.
C13_PutFrame ==
    [][(pc = "put" /\ pc' = "parse") => Frame(before, nodes', pkey, pvalue)]_vars

\* C13 happens: the last put gave a value to a, which had none and had the
\* child a.b with a value, and a.b is as it was
C13_Witness ==
    /\ pc = "parse"
    /\ before # <<>>
    /\ \E i \in DOMAIN before :
          /\ before[i].key = KeyA
          /\ before[i].value = <<>>
          /\ nodes[i].value # <<>>
          /\ \E j \in DOMAIN before :
                /\ before[j].key = KeyAB
                /\ before[j].value # <<>>
                /\ before[i].tree[<<"b">>] = j
                /\ nodes[j] = before[j]
                /\ nodes[i].tree = before[i].tree

\* the key of the node that the node j links under the segment s
PathKey(j, s) == IF j = 1 THEN s ELSE nodes[j].key \o Dot \o s

\* C14: in every state, the states inside a put included, the key of each
\* node is the dot-joined sequence of the segments of the child maps on its
\* path from the root; the key of the root is empty and the root has no
\* value.
C14_KeyIsPath ==
    /\ nodes[1].key = <<>>
    /\ nodes[1].value = <<>>
    /\ \A i \in DOMAIN nodes \ {1} :
          \E j \in DOMAIN nodes : \E s \in DOMAIN nodes[j].tree :
              nodes[j].tree[s] = i
    /\ \A j \in DOMAIN nodes : \A s \in DOMAIN nodes[j].tree :
          nodes[nodes[j].tree[s]].key = PathKey(j, s)

\* C15: in every state no two nodes carry the same key, so that each node
\* is reached by one dotted path, and the root is the only node whose key
\* is empty.
C15_UniqueKeys ==
    /\ \A i, j \in DOMAIN nodes : nodes[i].key = nodes[j].key => i = j
    /\ \A i \in DOMAIN nodes : nodes[i].key = <<>> => i = 1

C17_LoadParsedAll ==
    (pc = "loaded" /\ ret.err = Nil) => (scanErr = Nil /\ skipped = 0)

\* the key of the node c is k or k without one or more of its last segments
OnPath(c, k) == nodes[c].key = k \/ IsProperPrefix(nodes[c].key, k)

\* C18: in a put or a findNode that starts at the root of a tree built by
\* puts on the root, each node the descent reaches has a key that is the key
\* processed or a dotted prefix of it, so the branch that starts over at the
\* root is never taken.
C18_NoRestart ==
    /\ (pc = "put" /\ cur # 1) => OnPath(cur, pkey)
    /\ pc = "put" => putFrame(nodes, cur, pkey, pvalue).next # nodes[cur].root
    /\ Quiescent => \A k \in ProbeKeys \cup DOMAIN assigned : ~find(k).restarted

\* C18 happens: a put of a key of three segments has descended through the
\* node of its first segment to the node of its first two
C18_Witness ==
    /\ pc = "put"
    /\ cur # 1
    /\ IsProperPrefix(nodes[cur].key, pkey)
    /\ \E i \in DOMAIN nodes :
          /\ i # 1
          /\ nodes[i].key # <<>>
          /\ IsProperPrefix(nodes[i].key, nodes[cur].key)
    /\ pkey \in DOMAIN assigned

\* the last header names a section under which nothing was assigned
HeaderAlone == header # NoHeader /\ ~IsPath(HeaderName(header))

\* C19: the tree changes only while the put of an assignment line runs, and
\* only an assignment line starts a put: blank lines, comment lines and
\* section headers leave the tree as it is.  A header under which nothing is
\* assigned creates no node: KeyExists of its section stays false.
C19_OnlyAssignmentsChangeTree ==
    /\ [](HeaderAlone =>
            /\ NodesOf(HeaderName(header)) = {}
            /\ Quiescent => ~KeyExists(HeaderName(header)))
    /\ [][/\ nodes' # nodes => (pc = "put" /\ IsAssignmentLine(text))
          /\ (pc = "parse" /\ pc' = "put") => IsAssignmentLine(text')]_vars

\* C19 happens: after an assignment and a header with nothing under it,
\* KeyExists of the section has returned false
C19_Witness ==
    /\ pc = "loaded"
    /\ HeaderAlone
    /\ Len(nodes) > 1
    /\ resp.op = "KeyExists"
    /\ resp.key = HeaderName(header)
    /\ resp.val = FALSE

\* the keys looked up: the probes, and every beginning of an assigned key,
\* whether it ends at a dot, in front of one or inside a segment
Candidates ==
    (ProbeKeys \cup
     UNION {{SubSeq(a, 1, i) : i \in 1..Len(a)} : a \in DOMAIN assigned}) \ {<<>>}

\* nodes without children, the root apart
Leaves == {i \in DOMAIN nodes \ {1} : DOMAIN nodes[i].tree = {}}

\* C20: after any puts on the root, a non-empty key is found exactly when
\* it is a put key or some put key starts with it followed by a dot; a key
\* that ends inside a segment is not found; every leaf is a put key.
C20_ExactExistence ==
    /\ Quiescent =>
          /\ \A k \in Candidates :
                /\ (find(k).err = Nil) <=> IsPath(k)
                /\ KeyExists(k) <=> IsPath(k)
          /\ \A i \in Leaves : nodes[i].key \in DOMAIN assigned
    /\ (pc = "loaded" /\ resp.op = "KeyExists" /\ resp.key # <<>>) =>
          (resp.val <=> IsPath(resp.key))

\* C20 happens: with ab and another key assigned, KeyExists has returned
\* false for a, which ends inside the segment ab
C20_Witness ==
    /\ pc = "loaded"
    /\ resp.op = "KeyExists"
    /\ resp.key = KeyA
    /\ resp.val = FALSE
    /\ <<"a", "b">> \in DOMAIN assigned
    /\ Cardinality(DOMAIN assigned) > 1
    /\ KeyExists(<<"a", "b">>)

====
